---- MODULE Spec2Model ----
(***************************************************************************)
(* A model of miff.py: the FeatureSpace registry, Element construction and *)
(* the weighted Difference of two elements, with the metric and remap      *)
(* functions it dispatches to.                                             *)
(*                                                                         *)
(* Numbers.  The program computes in numpy/Python floating point.  The     *)
(* model computes in exact rationals extended with the IEEE values +inf,   *)
(* -inf and NaN, which is where the program's behaviour on division by     *)
(* zero lives.  A number is a record [k, n, d]: k = "fin" is the rational  *)
(* n/d in lowest terms with d > 0, k = "inf" is +inf (n = 1) or -inf       *)
(* (n = -1), k = "nan" is NaN.  Rounding and the sign of zero are not      *)
(* modelled (every zero divisor in the program is a +0: a Python 0 passed  *)
(* as range, or a sum that starts from the integer 0).                     *)
(*                                                                         *)
(* A computation either returns or raises: an outcome is a record          *)
(* [ok, py, v, err], ok = TRUE with the value v (py = TRUE when v is a     *)
(* builtin Python float, FALSE when it is a numpy scalar: the two differ   *)
(* on division by zero), or ok = FALSE with the exception's name in err.   *)
(*                                                                         *)
(* EuclideanDistance, CosineDistance and HellingerDistance take square     *)
(* roots and have no exact rational value; they are not modelled.          *)
(***************************************************************************)
EXTENDS Integers, Sequences, FiniteSets, TLC

\* Bound of the model: the longest registry.
MaxFeatures == 2

\* The caller's variables that hold elements.
Slots == {"e1", "e2"}

VARIABLES lists, inst, objs, elems, added, call, ret

vars == <<lists, inst, objs, elems, added, call, ret>>

----------------------------------------------------------------------------
\* Extended rational arithmetic.

Abs(x) == IF x < 0 THEN -x ELSE x

RECURSIVE GCD(_, _)
GCD(a, b) == IF b = 0 THEN a ELSE GCD(b, a % b)

Fin(n, d) ==
    LET s == IF d < 0 THEN -1 ELSE 1
        g == GCD(Abs(n), Abs(d))
    IN  [k |-> "fin", n |-> (s * n) \div g, d |-> (s * d) \div g]

NaN == [k |-> "nan", n |-> 0, d |-> 1]

Inf(s) == [k |-> "inf", n |-> s, d |-> 0]

Sign(x) == IF x.n > 0 THEN 1 ELSE IF x.n < 0 THEN -1 ELSE 0

IsFinite(x) == x.k = "fin"

NumNeg(x) ==
    IF x.k = "nan" THEN NaN
    ELSE IF x.k = "inf" THEN Inf(-x.n)
    ELSE Fin(-x.n, x.d)

NumAdd(x, y) ==
    IF x.k = "nan" \/ y.k = "nan" THEN NaN
    ELSE IF x.k = "inf" /\ y.k = "inf" THEN (IF x.n = y.n THEN x ELSE NaN)
    ELSE IF x.k = "inf" THEN x
    ELSE IF y.k = "inf" THEN y
    ELSE Fin(x.n * y.d + y.n * x.d, x.d * y.d)

NumSub(x, y) == NumAdd(x, NumNeg(y))

NumMul(x, y) ==
    IF x.k = "nan" \/ y.k = "nan" THEN NaN
    ELSE IF x.k = "inf" \/ y.k = "inf"
         THEN (IF Sign(x) * Sign(y) = 0 THEN NaN ELSE Inf(Sign(x) * Sign(y)))
    ELSE Fin(x.n * y.n, x.d * y.d)

\* numpy's true division: a zero divisor gives +-inf or NaN, with a warning.
NumDiv(x, y) ==
    IF x.k = "nan" \/ y.k = "nan" THEN NaN
    ELSE IF x.k = "inf" /\ y.k = "inf" THEN NaN
    ELSE IF x.k = "inf" THEN Inf(IF Sign(y) < 0 THEN -x.n ELSE x.n)
    ELSE IF y.k = "inf" THEN Fin(0, 1)
    ELSE IF y.n = 0 THEN (IF x.n = 0 THEN NaN ELSE Inf(Sign(x)))
    ELSE Fin(x.n * y.d, x.d * y.n)

NumLess(x, y) ==
    IF x.k = "inf" /\ y.k = "inf" THEN x.n < y.n
    ELSE IF x.k = "inf" THEN x.n < 0
    ELSE IF y.k = "inf" THEN y.n > 0
    ELSE x.n * y.d < y.n * x.d

\* np.minimum: NaN propagates.
NumMin(x, y) ==
    IF x.k = "nan" \/ y.k = "nan" THEN NaN
    ELSE IF NumLess(y, x) THEN y ELSE x

\* np.exp.  exp(+inf) = +inf, exp(-inf) = 0, exp(NaN) = NaN, exp(0) = 1.  On
\* a finite x > 0 the value is irrational; the model takes the cubic Taylor
\* polynomial T(x) = 1 + x + x^2/2 + x^3/6, and 1/T(-x) on x < 0, which keeps
\* exp positive, increasing, and below 1 exactly on the negative arguments.
ExpPoly(x) == Fin(6 * x.d * x.d * x.d + 6 * x.n * x.d * x.d
                  + 3 * x.n * x.n * x.d + x.n * x.n * x.n,
                  6 * x.d * x.d * x.d)

NumExp(x) ==
    IF x.k = "nan" THEN NaN
    ELSE IF x.k = "inf" THEN (IF x.n > 0 THEN Inf(1) ELSE Fin(0, 1))
    ELSE IF x.n >= 0 THEN ExpPoly(x)
    ELSE NumDiv(Fin(1, 1), ExpPoly(NumNeg(x)))

One == Fin(1, 1)

Zero == Fin(0, 1)

----------------------------------------------------------------------------
\* Outcomes of a computation.

Ok(py, v) == [ok |-> TRUE, py |-> py, v |-> v, err |-> "none"]

Raise(e) == [ok |-> FALSE, py |-> FALSE, v |-> Zero, err |-> e]

----------------------------------------------------------------------------
\* Feature values.  A value is a Python int, [t |-> "int", v |-> n], or a
\* reference to a numpy array on the heap objs, [t |-> "ref", v |-> id].
\* The contents a metric sees: [arr, v] with v the sequence of components
\* (one component for a scalar).

IntVal(n) == [t |-> "int", v |-> n]

RefVal(id) == [t |-> "ref", v |-> id]

Content(heap, val) ==
    IF val.t = "ref" THEN [arr |-> TRUE, v |-> heap[val.v]]
    ELSE [arr |-> FALSE, v |-> <<val.v>>]

\* a - b with numpy broadcasting of a scalar against an array.
Minus(x, y) ==
    LET n == IF Len(x.v) > Len(y.v) THEN Len(x.v) ELSE Len(y.v)
        at(s, i) == IF Len(s) = 1 THEN s[1] ELSE s[i]
    IN  [i \in 1..n |-> at(x.v, i) - at(y.v, i)]

RECURSIVE SumAbs(_)
SumAbs(s) == IF s = <<>> THEN 0 ELSE Abs(Head(s)) + SumAbs(Tail(s))

\* d = np.sum(np.abs(a - b)): a numpy scalar.
ManhattanDistance(x, y) == Ok(FALSE, Fin(SumAbs(Minus(x, y)), 1))

\* d = np.maximum(np.abs(a - b)): np.maximum is the two-argument
\* element-wise maximum; called with one argument it raises TypeError.
MaxAbsDistance(x, y) == Raise("TypeError")

\* d = 1.0; if a == b: d = 0.0.  With an array operand a == b is an array of
\* booleans, whose truth value is an error unless it has one component.
DiscreteDistance(x, y) ==
    LET eq == [i \in DOMAIN Minus(x, y) |-> Minus(x, y)[i] = 0]
    IN  IF (x.arr \/ y.arr) /\ Len(eq) # 1 THEN Raise("ValueError")
        ELSE IF eq[1] THEN Ok(TRUE, Zero) ELSE Ok(TRUE, One)

Metric(m, x, y) ==
    IF m = "ManhattanDistance" THEN ManhattanDistance(x, y)
    ELSE IF m = "MaxAbsDistance" THEN MaxAbsDistance(x, y)
    ELSE DiscreteDistance(x, y)

----------------------------------------------------------------------------
\* Remapping functions.  d is the metric's outcome value (with its py flag),
\* r the Python number stored as the feature's range.

\* d / r: a builtin float divided by zero raises, a numpy scalar does not.
Quot(d, py, r) ==
    IF py /\ r = 0 THEN Raise("ZeroDivisionError")
    ELSE Ok(py, NumDiv(d, Fin(r, 1)))

\* t = np.minimum(d / r, 1.0)
LinearRemap(d, py, r) ==
    LET q == Quot(d, py, r)
    IN  IF ~q.ok THEN q ELSE Ok(FALSE, NumMin(q.v, One))

\* t = 1.0 - np.exp(-d / r)
ExponentialRemap(d, py, r) ==
    LET q == Quot(NumNeg(d), py, r)
    IN  IF ~q.ok THEN q ELSE Ok(FALSE, NumSub(One, NumExp(q.v)))

Remap(f, d, py, r) ==
    IF f = "LinearRemap" THEN LinearRemap(d, py, r)
    ELSE ExponentialRemap(d, py, r)

----------------------------------------------------------------------------
\* Dictionaries (elements, and the caller's keyword arguments) are functions
\* from a finite set of keys.

EmptyDict == [x \in {} |-> IntVal(0)]

\* A variant of DictSet that keeps the value a key already has (setdefault).
DictSetDefault(e, k, v) ==
    [x \in (DOMAIN e) \cup {k} |-> IF x \in DOMAIN e THEN e[x] ELSE v]

\* e[k] = v
DictSet(e, k, v) == [x \in (DOMAIN e) \cup {k} |-> IF x = k THEN v ELSE e[x]]

----------------------------------------------------------------------------
\* The registry.  lists is the heap of Python list objects; lists[1] is the
\* class attribute FeatureSpace.features.  inst[i] holds instance i's own
\* attributes: made (constructed), has (an instance attribute "features" is
\* set) and features (the list it refers to).

ClassFeatures == 1

\* A variant of FeatureSpaceInit that sets no instance attribute, which
\* leaves the instance on the class attribute.
FeatureSpaceInitShared(nl) == [made |-> TRUE, has |-> FALSE, features |-> 0]

\* __init__: self.features = [], nl the new list.
FeatureSpaceInit(nl) == [made |-> TRUE, has |-> TRUE, features |-> nl]

\* self.features: the instance attribute, else the class attribute.
SelfFeatures(i) == IF inst[i].has THEN inst[i].features ELSE ClassFeatures

Features(i) == lists[SelfFeatures(i)]

\* A variant of AppendFeature that replaces an entry of the same name.
AppendFeatureReplace(l, f) ==
    IF \E j \in DOMAIN l : l[j].name = f.name
    THEN [j \in DOMAIN l |-> IF l[j].name = f.name THEN f ELSE l[j]]
    ELSE Append(l, f)

\* f = {'name': ..., 'proto': ..., ...}; self.features.append(f)
AppendFeature(l, f) == Append(l, f)

\* Element: e = {}; for ff in self.features: e[ff['name']] = ff['proto']
RECURSIVE ElementFrom(_, _)
ElementFrom(fs, e) ==
    IF fs = <<>> THEN e
    ELSE ElementFrom(Tail(fs), DictSet(e, Head(fs).name, Head(fs).proto))

ElementOf(fs) == ElementFrom(fs, EmptyDict)

----------------------------------------------------------------------------
\* Difference.

\* A variant of NormMetric that reads a missing key as 0 (dict.get).
NormMetricDefault(ff, a, b, heap) ==
    LET get(e) == IF ff.name \in DOMAIN e THEN e[ff.name] ELSE IntVal(0)
        mm == Metric(ff.metric, Content(heap, get(a)), Content(heap, get(b)))
    IN  IF ~mm.ok THEN mm
        ELSE IF ff.remap # "None" THEN Remap(ff.remap, mm.v, mm.py, ff.range)
        ELSE mm

\* One pass of the loop body for entry ff: the two lookups, the metric, the
\* optional remap.
NormMetric(ff, a, b, heap) ==
    IF ff.name \notin DOMAIN a \/ ff.name \notin DOMAIN b THEN Raise("KeyError")
    ELSE LET mm == Metric(ff.metric, Content(heap, a[ff.name]),
                          Content(heap, b[ff.name]))
         IN  IF ~mm.ok THEN mm
             ELSE IF ff.remap # "None"
                  THEN Remap(ff.remap, mm.v, mm.py, ff.range)
             ELSE mm

\* The loop: the lists metrics and weights, or the first exception.
RECURSIVE Collect(_, _, _, _, _, _)
Collect(fs, a, b, heap, metrics, weights) ==
    IF fs = <<>>
    THEN [ok |-> TRUE, err |-> "none", metrics |-> metrics, weights |-> weights]
    ELSE LET mm == NormMetric(Head(fs), a, b, heap)
         IN  IF ~mm.ok
             THEN [ok |-> FALSE, err |-> mm.err, metrics |-> <<>>, weights |-> <<>>]
             ELSE Collect(Tail(fs), a, b, heap, Append(metrics, mm.v),
                          Append(weights, Fin(Head(fs).weight, 1)))

\* The builtin sum of an array: from the integer 0, left to right.
RECURSIVE SumFrom(_, _)
SumFrom(s, acc) == IF s = <<>> THEN acc ELSE SumFrom(Tail(s), NumAdd(acc, Head(s)))

\* A variant of WeightedMean that leaves the weights out of the numerator.
WeightedMeanPlain(mm, ww) ==
    IF Len(mm) = 0 THEN Raise("ZeroDivisionError")
    ELSE Ok(FALSE, NumDiv(SumFrom(mm, Zero), SumFrom(ww, Zero)))

\* dd = sum(mm * ww) / sum(ww).  Over empty arrays both sums are the Python
\* integer 0 and the division raises; otherwise both are numpy scalars.
WeightedMean(mm, ww) ==
    IF Len(mm) = 0 THEN Raise("ZeroDivisionError")
    ELSE Ok(FALSE, NumDiv(SumFrom([i \in DOMAIN mm |-> NumMul(mm[i], ww[i])], Zero),
                          SumFrom(ww, Zero)))

\* What a call returns: nothing, an element, a scalar, a pair, or an exception.
RetNone == [kind |-> "none", dd |-> Zero, metrics |-> <<>>, err |-> "none",
            elem |-> EmptyDict]

RetElem(e) == [RetNone EXCEPT !.kind = "elem", !.elem = e]

RetRaise(e) == [RetNone EXCEPT !.kind = "raise", !.err = e]

\* A variant of Return that ignores get_metrics.
ReturnScalar(dd, metrics, get_metrics) == [RetNone EXCEPT !.kind = "scalar", !.dd = dd]

\* if get_metrics: return dd, metrics; else: return dd
Return(dd, metrics, get_metrics) ==
    IF get_metrics THEN [RetNone EXCEPT !.kind = "pair", !.dd = dd, !.metrics = metrics]
    ELSE [RetNone EXCEPT !.kind = "scalar", !.dd = dd]

DifferenceOf(fs, a, b, get_metrics, heap) ==
    LET c == Collect(fs, a, b, heap, <<>>, <<>>)
        dd == WeightedMean(c.metrics, c.weights)
    IN  IF ~c.ok THEN RetRaise(c.err)
        ELSE IF ~dd.ok THEN RetRaise(dd.err)
        ELSE Return(dd.v, c.metrics, get_metrics)

----------------------------------------------------------------------------
\* The calls.  Insts are the instances the caller may construct.

Insts == {1, 2}

NoCall == [op |-> "none", self |-> 0, a |-> EmptyDict, b |-> EmptyDict,
           flag |-> FALSE]

Called(op, i) == [NoCall EXCEPT !.op = op, !.self = i]

Init ==
    /\ lists = << <<>> >>
    /\ inst = [i \in Insts |-> [made |-> FALSE, has |-> FALSE, features |-> 0]]
    /\ objs = <<>>
    /\ elems = [k \in Slots |-> EmptyDict]
    /\ added = [i \in Insts |-> <<>>]
    /\ call = NoCall
    /\ ret = RetNone

\* FeatureSpace()
New(i) ==
    /\ ~inst[i].made
    /\ lists' = Append(lists, <<>>)
    /\ inst' = [inst EXCEPT ![i] = FeatureSpaceInit(Len(lists) + 1)]
    /\ call' = Called("New", i)
    /\ ret' = RetNone
    /\ UNCHANGED <<objs, elems, added>>

\* AddFeature(name, proto, metric, remap, range, weight) with a proto the
\* caller already holds (a number).
AddFeature(i, f) ==
    /\ inst[i].made
    /\ Len(Features(i)) < MaxFeatures
    /\ lists' = [lists EXCEPT ![SelfFeatures(i)] = AppendFeature(@, f)]
    /\ added' = [added EXCEPT ![i] = Append(@, f)]
    /\ call' = Called("AddFeature", i)
    /\ ret' = RetNone
    /\ UNCHANGED <<inst, objs, elems>>

\* AddFeature with a freshly made numpy array arr as the proto.
AddArrayFeature(i, f, arr) ==
    /\ inst[i].made
    /\ Len(Features(i)) < MaxFeatures
    /\ objs' = Append(objs, arr)
    /\ LET g == [f EXCEPT !.proto = RefVal(Len(objs) + 1)]
       IN  /\ lists' = [lists EXCEPT ![SelfFeatures(i)] = AppendFeature(@, g)]
           /\ added' = [added EXCEPT ![i] = Append(@, g)]
    /\ call' = Called("AddFeature", i)
    /\ ret' = RetNone
    /\ UNCHANGED <<inst, elems>>

\* Element()
Element(i) ==
    /\ inst[i].made
    /\ call' = Called("Element", i)
    /\ ret' = RetElem(ElementOf(Features(i)))
    /\ UNCHANGED <<lists, inst, objs, elems, added>>

\* Difference(aa, bb, get_metrics)
Difference(i, a, b, get_metrics) ==
    /\ inst[i].made
    /\ call' = [op |-> "Difference", self |-> i, a |-> a, b |-> b,
                flag |-> get_metrics]
    /\ ret' = DifferenceOf(Features(i), a, b, get_metrics, objs)
    /\ UNCHANGED <<lists, inst, objs, elems, added>>

\* The caller keeps the element just returned in its variable k.
Keep(k) ==
    /\ ret.kind = "elem"
    /\ elems[k] # ret.elem
    /\ elems' = [elems EXCEPT ![k] = ret.elem]
    /\ call' = NoCall
    /\ ret' = RetNone
    /\ UNCHANGED <<lists, inst, objs, added>>

\* The caller assigns a number to a key of an element it keeps: e[name] = v.
SetItem(k, name, v) ==
    /\ elems' = [elems EXCEPT ![k] = DictSet(@, name, v)]
    /\ elems' # elems
    /\ call' = NoCall
    /\ ret' = RetNone
    /\ UNCHANGED <<lists, inst, objs, added>>

\* The caller modifies an array value of an element in place: e[name][j] = v.
Mutate(k, name, j, v) ==
    /\ name \in DOMAIN elems[k]
    /\ elems[k][name].t = "ref"
    /\ j \in DOMAIN objs[elems[k][name].v]
    /\ objs[elems[k][name].v][j] # v
    /\ objs' = [objs EXCEPT ![elems[k][name].v][j] = v]
    /\ call' = [NoCall EXCEPT !.op = "Mutate"]
    /\ ret' = RetNone
    /\ UNCHANGED <<lists, inst, elems, added>>

----------------------------------------------------------------------------
\* The caller's inputs.

Feat(name, proto, metric, remap, range, weight) ==
    [name |-> name, proto |-> proto, metric |-> metric, remap |-> remap,
     range |-> range, weight |-> weight]

\* Elements the caller writes out as dictionary literals: one without
\* "town", two complete ones, the second with a key no feature uses.
LitElems ==
    {("age" :> IntVal(1)),
     ("age" :> IntVal(0)) @@ ("town" :> IntVal(0)),
     ("age" :> IntVal(3)) @@ ("town" :> IntVal(1)) @@ ("zip" :> IntVal(5))}

MetricInputs ==
    {[name |-> "age", metric |-> "ManhattanDistance"],
     [name |-> "town", metric |-> "DiscreteDistance"]}

\* Spec: one feature space, features whose remap (if any) has a positive
\* range and whose weights vary, Difference on literal elements.
WeightInputs ==
    {Feat(nm.name, IntVal(0), nm.metric, r, 2, w) :
        nm \in MetricInputs,
        r \in {"None", "LinearRemap", "ExponentialRemap"},
        w \in {0, 1, 2}}

Solo == {1}

Next ==
    \E i \in Solo :
        \/ New(i)
        \/ \E f \in WeightInputs : AddFeature(i, f)
        \/ Element(i)
        \/ \E a \in LitElems, b \in LitElems, g \in BOOLEAN : Difference(i, a, b, g)

Spec == Init /\ [][Next]_vars

\* SpecRange: one feature space, features of weight 1 whose remap ranges
\* over positive, zero and negative values of range.
RangeInputs ==
    {Feat(nm.name, IntVal(0), nm.metric, "None", 1, 1) : nm \in MetricInputs}
    \cup {Feat(nm.name, IntVal(0), nm.metric, r, g, 1) :
            nm \in MetricInputs,
            r \in {"LinearRemap", "ExponentialRemap"},
            g \in {-1, 0, 2}}

\* One element without "age", two complete ones, the second with an extra key.
RangeElems ==
    {("town" :> IntVal(1)),
     ("age" :> IntVal(0)) @@ ("town" :> IntVal(0)),
     ("age" :> IntVal(3)) @@ ("town" :> IntVal(1)) @@ ("zip" :> IntVal(5))}

NextRange ==
    \E i \in Solo :
        \/ New(i)
        \/ \E f \in RangeInputs : AddFeature(i, f)
        \/ Element(i)
        \/ \E a \in RangeElems, b \in RangeElems, g \in BOOLEAN : Difference(i, a, b, g)

SpecRange == Init /\ [][NextRange]_vars

\* SpecInst: two feature spaces side by side.
InstInputs ==
    {Feat("age", IntVal(0), "ManhattanDistance", "None", 1, 1),
     Feat("age", IntVal(1), "ManhattanDistance", "LinearRemap", 2, 2),
     Feat("town", IntVal(0), "DiscreteDistance", "None", 1, 1)}

InstElems ==
    {("age" :> IntVal(1)),
     ("age" :> IntVal(3)) @@ ("town" :> IntVal(1))}

NextInst ==
    \E i \in Insts :
        \/ New(i)
        \/ \E f \in InstInputs : AddFeature(i, f)
        \/ Element(i)
        \/ \E a \in InstElems, b \in InstElems, g \in BOOLEAN : Difference(i, a, b, g)

SpecInst == Init /\ [][NextInst]_vars

\* SpecHeap: one feature space with number and array prototypes; the caller
\* keeps the elements it gets, assigns to their keys and writes into their
\* arrays, and passes them to Difference.
ScalarInputs ==
    {Feat("age", IntVal(v), "ManhattanDistance", "None", 1, 1) : v \in {1, 2}}

ArrayInputs ==
    {Feat("hist", IntVal(0), m, "None", 1, 1) :
        m \in {"ManhattanDistance", "MaxAbsDistance"}}

Arrays == {<<0, 0>>}

NextHeap ==
    \/ \E i \in Solo :
        \/ New(i)
        \/ \E f \in ScalarInputs : AddFeature(i, f)
        \/ \E f \in ArrayInputs, arr \in Arrays : AddArrayFeature(i, f, arr)
        \/ Element(i)
        \/ \E ka \in Slots, kb \in Slots, g \in BOOLEAN :
              Difference(i, elems[ka], elems[kb], g)
    \/ \E k \in Slots :
        \/ Keep(k)
        \/ SetItem(k, "hist", IntVal(0))
        \/ \E name \in {"age", "hist"}, j \in 1..2, v \in {0, 1} : Mutate(k, name, j, v)

SpecHeap == Init /\ [][NextHeap]_vars

----------------------------------------------------------------------------
\* What the properties below talk about.

DiffCalled == call.op = "Difference"

\* The registry the last call was made on.
Reg == Features(call.self)

Present(ff, a, b) == ff.name \in DOMAIN a /\ ff.name \in DOMAIN b

AllPresent(fs, a, b) == \A j \in DOMAIN fs : Present(fs[j], a, b)

\* m_i: the metric of entry ff on a and b, remapped with the entry's range
\* when a remap is configured.
PerFeature(ff, a, b, heap) ==
    LET raw == Metric(ff.metric, Content(heap, a[ff.name]), Content(heap, b[ff.name]))
    IN  IF raw.ok /\ ff.remap = "LinearRemap" THEN LinearRemap(raw.v, raw.py, ff.range)
        ELSE IF raw.ok /\ ff.remap = "ExponentialRemap"
             THEN ExponentialRemap(raw.v, raw.py, ff.range)
        ELSE raw

AllDefined(fs, a, b, heap) ==
    \A j \in DOMAIN fs : Present(fs[j], a, b) /\ PerFeature(fs[j], a, b, heap).ok

RECURSIVE WTotal(_)
WTotal(fs) == IF fs = <<>> THEN 0 ELSE Head(fs).weight + WTotal(Tail(fs))

RECURSIVE WSum(_, _, _, _)
WSum(fs, a, b, heap) ==
    IF fs = <<>> THEN Zero
    ELSE NumAdd(NumMul(Fin(Head(fs).weight, 1), PerFeature(Head(fs), a, b, heap).v),
                WSum(Tail(fs), a, b, heap))

Returned == ret.kind \in {"scalar", "pair"}

\* C1: when the weight total is positive, a and b hold every registered name
\* and every m_i has a value, Difference returns sum(w_i * m_i) / sum(w_i).
C1_WeightedMean ==
    (DiffCalled /\ WTotal(Reg) > 0 /\ AllDefined(Reg, call.a, call.b, objs))
        => /\ Returned
           /\ ret.dd = NumDiv(WSum(Reg, call.a, call.b, objs), Fin(WTotal(Reg), 1))

\* Two features of different positive weights, one remapped and one not,
\* whose mean is neither 0 nor 1.
C1_Witness ==
    /\ DiffCalled /\ Returned /\ Len(Reg) = 2
    /\ Reg[1].weight = 1 /\ Reg[2].weight = 2
    /\ Reg[1].remap = "None" /\ Reg[2].remap = "LinearRemap"
    /\ AllDefined(Reg, call.a, call.b, objs)
    /\ IsFinite(ret.dd) /\ ret.dd.d > 1

\* The first registry entry that fails on a and b (0 when none does).
Fails(ff, a, b, heap) == ~Present(ff, a, b) \/ ~PerFeature(ff, a, b, heap).ok

FirstBad(fs, a, b, heap) ==
    LET bad == {j \in DOMAIN fs : Fails(fs[j], a, b, heap)}
    IN  IF bad = {} THEN 0 ELSE CHOOSE j \in bad : \A h \in bad : j <= h

Missing(fs, a, b) == \E j \in DOMAIN fs : ~Present(fs[j], a, b)

\* An element without the keys no feature of fs uses.
Registered(fs, e) ==
    [x \in (DOMAIN e) \cap {fs[j].name : j \in DOMAIN fs} |-> e[x]]

\* C2 as claimed: with a registered name absent from a or b Difference fails
\* with a LookupError, and keys that are not registered change nothing.
C2_LookupError ==
    DiffCalled =>
        /\ Missing(Reg, call.a, call.b) => (ret.kind = "raise" /\ ret.err = "KeyError")
        /\ ret = DifferenceOf(Reg, Registered(Reg, call.a), Registered(Reg, call.b),
                              call.flag, objs)

\* C2 as amended: with a registered name absent Difference fails, with the
\* error of the first entry, in registration order, that fails: KeyError when
\* that entry's name is absent, else its metric's or remap's own error; and
\* keys that are not registered change nothing.
C2_FirstFailure ==
    DiffCalled =>
        LET j == FirstBad(Reg, call.a, call.b, objs)
        IN  /\ Missing(Reg, call.a, call.b) =>
                /\ ret.kind = "raise"
                /\ ret.err = IF Present(Reg[j], call.a, call.b)
                             THEN PerFeature(Reg[j], call.a, call.b, objs).err
                             ELSE "KeyError"
            /\ ret = DifferenceOf(Reg, Registered(Reg, call.a),
                                  Registered(Reg, call.b), call.flag, objs)

\* A KeyError on the second of two entries, with an unregistered key in b.
C2_Witness ==
    /\ DiffCalled /\ Len(Reg) = 2
    /\ Present(Reg[1], call.a, call.b) /\ ~Present(Reg[2], call.a, call.b)
    /\ "zip" \in DOMAIN call.b
    /\ ret.kind = "raise" /\ ret.err = "KeyError"

\* C3 as claimed: with a weight total of 0 Difference fails.
C3_ZeroTotalFails == (DiffCalled /\ WTotal(Reg) = 0) => ret.kind = "raise"

\* C5: with the flag Difference returns the aggregate and one normalized
\* value per AddFeature call, in call order; without it the scalar alone,
\* equal to the pair's aggregate.
C5_MetricsList ==
    (DiffCalled /\ ret.kind # "raise") =>
        /\ ret.kind = IF call.flag THEN "pair" ELSE "scalar"
        /\ call.flag =>
              /\ Len(ret.metrics) = Len(added[call.self])
              /\ \A j \in DOMAIN ret.metrics :
                    ret.metrics[j] = PerFeature(Reg[j], call.a, call.b, objs).v
        /\ ~call.flag => ret.metrics = <<>>
        /\ ret.dd = DifferenceOf(Reg, call.a, call.b, ~call.flag, objs).dd

\* A pair with two different values for two entries of the same name.
C5_Witness ==
    /\ DiffCalled /\ ret.kind = "pair" /\ Len(ret.metrics) = 2
    /\ Reg[1].name = Reg[2].name
    /\ ret.metrics[1] # ret.metrics[2]

\* C9 as claimed: with a remap whose range is <= 0 in the registry,
\* Difference returns no number.
C9_BadRangeFails ==
    (DiffCalled /\ \E j \in DOMAIN Reg : Reg[j].remap # "None" /\ Reg[j].range <= 0)
        => ret.kind = "raise"

\* The contents of the prototypes of instance i's registry, and of an element.
ProtoContent(i) == [j \in DOMAIN Features(i) |-> Content(objs, Features(i)[j].proto)]

Deep(e) == [x \in DOMAIN e |-> Content(objs, e[x])]

\* C4 as claimed: writing into an array of one element changes neither a
\* prototype of the registry nor any other element.
C4_NoSharing ==
    [][call'.op = "Mutate" =>
          /\ \A i \in Insts : ProtoContent(i)' = ProtoContent(i)
          /\ Cardinality({k \in Slots : Deep(elems[k])' # Deep(elems[k])}) <= 1]_vars

\* C6: the registry is the sequence of entries passed to AddFeature, in call
\* order; AddFeature appends and leaves the earlier entries alone; Element
\* and Difference (failing or not) change neither the registry nor the
\* elements, and a repeated Difference returns the same.
C6_AppendOnly ==
    [][/\ \A i \in Insts :
             /\ inst'[i].made => Features(i)' = added'[i]
             /\ (call'.op = "AddFeature" /\ call'.self = i) =>
                   /\ Len(Features(i)') = Len(Features(i)) + 1
                   /\ SubSeq(Features(i)', 1, Len(Features(i))) = Features(i)
             /\ call'.op = "AddFeature" =>
                   SubSeq(ProtoContent(i)', 1, Len(Features(i))) = ProtoContent(i)
       /\ call'.op \in {"Element", "Difference"} =>
             /\ UNCHANGED <<lists, inst, objs, elems>>
             /\ (call.op = "Difference" /\ call'.op = "Difference"
                 /\ call'.a = call.a /\ call'.b = call.b /\ call'.self = call.self
                 /\ call'.flag = call.flag) => ret' = ret]_vars

\* A Difference that failed on a registry of two entries of the same name.
C6_Witness ==
    /\ DiffCalled /\ ret.kind = "raise" /\ Len(Reg) = 2
    /\ Reg[1].name = Reg[2].name /\ Reg[1] # Reg[2]
    /\ \E k \in Slots : elems[k] # EmptyDict

\* C7: AddFeature on one instance leaves the registry of every other
\* instance, and so its Element, unchanged; a new instance has an empty
\* registry.
C7_OwnRegistry ==
    [][\A i \in Insts :
          /\ (call'.op = "AddFeature" /\ call'.self = i) =>
                \A j \in Insts \ {i} :
                   /\ Features(j)' = Features(j)
                   /\ ElementOf(Features(j))' = ElementOf(Features(j))
          /\ (call'.op = "New" /\ call'.self = i) => Features(i)' = <<>>]_vars

\* The second instance is constructed after two registrations on the first.
C7_Witness ==
    /\ call.op = "New" /\ call.self = 2
    /\ inst[1].made /\ Len(Features(1)) = 2

RECURSIVE MaxOf(_)
MaxOf(s) == IF Len(s) = 1 THEN Abs(s[1])
            ELSE LET m == MaxOf(Tail(s))
                 IN  IF Abs(Head(s)) > m THEN Abs(Head(s)) ELSE m

\* max over i of |a_i - b_i|
LInf(x, y) == MaxOf(Minus(x, y))

\* C8 as claimed: a feature with the MaxAbs metric yields a number, the
\* largest absolute difference of the components.
C8_MaxAbsIsLInf ==
    (/\ DiffCalled /\ AllPresent(Reg, call.a, call.b)
     /\ \E j \in DOMAIN Reg : Reg[j].metric = "MaxAbsDistance")
        => /\ ret.kind # "raise"
           /\ ret.kind = "pair" =>
                \A j \in DOMAIN Reg :
                    Reg[j].metric = "MaxAbsDistance" =>
                        ret.metrics[j] =
                            Fin(LInf(Content(objs, call.a[Reg[j].name]),
                                     Content(objs, call.b[Reg[j].name])), 1)

====
